---- MODULE Spec2Model ----
(***************************************************************************)
(* Model of the detection session controller (class PokemonCardDetector):  *)
(* the detection cache (detectedCards), the overlay renderer, the capture  *)
(* scheduler with its single in-flight recognition request, and the        *)
(* WebSocket notification channel with heartbeat and reconnect.            *)
(*                                                                         *)
(* Strings are sequences of character codes, so that toLowerCase and trim  *)
(* are computed and not assumed.  Times are integer milliseconds (a card's *)
(* timestamp is an ISO string with millisecond precision, which new Date() *)
(* parses back to the same millisecond).                                   *)
(***************************************************************************)
EXTENDS Integers, Sequences, FiniteSets, TLC

VARIABLES
  detectedCards,      \* this.detectedCards: Map id -> card
  now,                \* the wall clock, Date.now()
  rafQueue,           \* callbacks registered with requestAnimationFrame, in order
  overlay,            \* what is drawn on the overlay canvas
  ctxFont,            \* the font of the overlay's 2d context, which outlives a pass
  latest,             \* history: what the detections of the response handled last draw
  stream,             \* this.stream is not null
  gumPending,         \* getUserMedia requests that have not settled
  isProcessing,       \* this.isProcessing
  processingInterval, \* this.processingInterval is not null (it holds the newest timer)
  captureTimers,      \* the active capture interval timers, oldest first: each one's period
  fps,                \* this.processingSpeed.value
  delays,             \* pending 25 ms timeouts set by capture ticks
  blobs,              \* pending canvas.toBlob callbacks
  calls,              \* processFrameWithBackend invocations, by the await they are at
  ws,                 \* this.ws: "none", or the readyState of the socket it holds
  orphans,            \* sockets this.ws no longer holds that are not closed, by readyState
  isConnected,        \* this.isConnected
  heartbeatInterval,  \* this.heartbeatInterval is set (it holds the newest heartbeat timer)
  heartbeats,         \* the active heartbeat interval timers
  reconnectTimers,    \* pending 3000 ms reconnect timeouts
  healthCheckInterval,\* this.healthCheckInterval is set: the health check timer is active
  connectivityTimer,  \* the constructor's 1000 ms timeout is pending
  cleanedUp,          \* history: cleanup() has run
  messageLog,         \* the entries of the message log element, oldest first
  arrivals,           \* history: every entry logMessage has appended, in order
  connections,        \* server.js: the connections the WebSocket server has accepted
  controls,           \* app.js: the controller with Start, Stop and Capture buttons
  lastOp              \* history: the operation that ran last, and the names it handled

cacheVars == <<detectedCards, now>>
renderVars == <<rafQueue, overlay, ctxFont, latest>>
captureVars == <<stream, gumPending, isProcessing, processingInterval, captureTimers,
                 fps, delays, blobs, calls>>
channelVars == <<ws, orphans, isConnected, heartbeatInterval, heartbeats, reconnectTimers>>
logVars == <<messageLog, arrivals>>
serverVars == <<connections>>
appVars == <<controls>>
sessionVars == <<healthCheckInterval, connectivityTimer, cleanedUp, logVars, serverVars,
                 appVars>>
vars == <<cacheVars, renderVars, captureVars, channelVars, sessionVars, lastOp>>

----------------------------------------------------------------------------
(* Bounds of the model *)

MaxWindows == 1       \* the clock runs over this many cooldown windows
MaxPending == 2       \* render passes registered and not yet executed
MaxPipeline == 2      \* pending 25 ms timeouts, and pending toBlob callbacks
MaxCalls == 2         \* processFrameWithBackend invocations that have not returned
MaxCameraRequests == 1 \* getUserMedia requests that have not settled
MaxStartClicks == 2    \* clicks on the start button whose request has not settled
MaxSockets == 2       \* WebSockets that are not closed
MaxTimers == 2        \* pending reconnect timeouts, and active heartbeat timers
MaxMessages == 60     \* calls of logMessage
MaxConnections == 2   \* connections the WebSocket server accepts
MaxClientMessages == 3 \* messages the server receives, over all connections
MaxStreams == 3       \* media streams acquired whose tracks are running
MaxErrors == 1        \* calls of logMessage with level 'error'

----------------------------------------------------------------------------
(* Strings *)

Undefined == <<-1>>                \* undefined / null / absent JSON field
NotAString == <<-2>>               \* a truthy JSON value that is no string: no trim()

StrPi == <<80, 105>>               \* "Pi"
StrPiLower == <<112, 105>>         \* "pi"
StrE == <<69>>                     \* "E"
StrBlank == <<32>>                 \* " "
UnknownCard == <<85, 110, 107, 110, 111, 119, 110, 32, 67, 97, 114, 100>>
UnknownSet == <<85, 110, 107, 110, 111, 119, 110, 32, 83, 101, 116>>
UnknownID == <<85, 110, 107, 110, 111, 119, 110, 32, 73, 68>>
CardPrefix == <<67, 97, 114, 100, 32>>   \* "Card "

IsSpace(c) == c \in {9, 10, 11, 12, 13, 32}

ToLowerCase(s) == [i \in 1..Len(s) |-> IF s[i] \in 65..90 THEN s[i] + 32 ELSE s[i]]

RECURSIVE TrimStart(_)
TrimStart(s) ==
  IF s # <<>> /\ IsSpace(Head(s)) THEN TrimStart(Tail(s)) ELSE s

RECURSIVE TrimEnd(_)
TrimEnd(s) ==
  IF s # <<>> /\ IsSpace(s[Len(s)]) THEN TrimEnd(SubSeq(s, 1, Len(s) - 1)) ELSE s

Untrimmed(s) == s

Trim(s) == TrimEnd(TrimStart(s))

\* JavaScript truthiness of a value that is a string or absent
Truthy(v) == v # Undefined /\ v # <<>>

\* `${n}` for a natural number n
RECURSIVE DecStr(_)
DecStr(n) ==
  IF n < 10 THEN <<48 + n>> ELSE DecStr(n \div 10) \o <<48 + (n % 10)>>

----------------------------------------------------------------------------
(* Detection cache *)

CooldownMinutes == 2
CooldownMs == CooldownMinutes * 60 * 1000

\* the card name of a best match: name, then card_id, then set_id
ResolveName(bestMatch) ==
  IF Truthy(bestMatch.name) /\ Truthy(Trim(bestMatch.name))
    THEN Trim(bestMatch.name)
  ELSE IF Truthy(bestMatch.card_id) /\ Truthy(Trim(bestMatch.card_id))
    THEN Trim(bestMatch.card_id)
  ELSE IF Truthy(bestMatch.set_id) /\ Truthy(Trim(bestMatch.set_id))
    THEN Trim(bestMatch.set_id)
  ELSE UnknownCard

\* bestMatch.<field>.trim is not a function: the chain reads name, card_id and
\* set_id in turn and calls trim() on the first that is truthy
ResolveThrows(bestMatch) ==
  LET Stops(v) == Truthy(v) /\ (v = NotAString \/ Truthy(Trim(v)))
  IN IF Stops(bestMatch.name) THEN bestMatch.name = NotAString
     ELSE IF Stops(bestMatch.card_id) THEN bestMatch.card_id = NotAString
     ELSE bestMatch.set_id = NotAString

SameNameExact(a, b) == a = b

\* card.name.toLowerCase() === cardName.toLowerCase()
SameName(a, b) == ToLowerCase(a) = ToLowerCase(b)

IsRecentlyDetected(cards, cardName, t) ==
  \E id \in DOMAIN cards :
    /\ SameName(cards[id].name, cardName)
    /\ (t - cards[id].timestamp) < CooldownMs

ExistingCard(cards, cardName) ==
  \E id \in DOMAIN cards : SameName(cards[id].name, cardName)

ShouldInsertCooldownOnly(cards, cardName, t) ==
  ~IsRecentlyDetected(cards, cardName, t)

\* if (!existingCard && !recentlyDetected)
ShouldInsert(cards, cardName, t) ==
  ~ExistingCard(cards, cardName) /\ ~IsRecentlyDetected(cards, cardName, t)

EmptyMap == [k \in {} |-> k]

MapSet(cards, id, card) ==
  [k \in DOMAIN cards \cup {id} |-> IF k = id THEN card ELSE cards[k]]

MapDeleteAll(cards, id) == EmptyMap

\* this.detectedCards.delete(cardId)
MapDelete(cards, id) == [k \in DOMAIN cards \ {id} |-> cards[k]]

MapClearUnkept(cards) ==
  [k \in { id \in DOMAIN cards : cards[id].kept } |-> cards[k]]

\* this.detectedCards.clear()
MapClear(cards) == EmptyMap

MarkKept(card) == [card EXCEPT !.kept = TRUE]

\* card.kept = !card.kept
ToggleKept(card) == [card EXCEPT !.kept = ~card.kept]

OrElseAbsent(v, default) == v

OrElse(v, default) == IF Truthy(v) THEN v ELSE default

\* `card_${Date.now()}_${index}`
HttpCardId(t, index) == <<t, DecStr(index)>>

\* one iteration of data.detections.forEach((detection, index) => ...)
AddDetection(cards, detection, index, t) ==
  IF Len(detection.matches) > 0
    THEN LET bestMatch == detection.matches[1]
             cardName == ResolveName(bestMatch)
             cardId == HttpCardId(t, index)
         IN IF ShouldInsert(cards, cardName, t)
              THEN MapSet(cards, cardId,
                     [id |-> cardId,
                      name |-> cardName,
                      confidence |-> bestMatch.distance,
                      polygon |-> detection.polygon,
                      cropSize |-> detection.crop_size,
                      setId |-> OrElse(bestMatch.set_id, UnknownSet),
                      cardId |-> OrElse(bestMatch.card_id, UnknownID),
                      timestamp |-> t,
                      kept |-> FALSE])
              ELSE cards
    ELSE cards

\* the store after detections[1..n] of a response were handled at time t
RECURSIVE AddDetections(_, _, _, _)
AddDetections(cards, detections, n, t) ==
  IF n = 0 THEN cards
  ELSE AddDetection(AddDetections(cards, detections, n - 1, t),
                    detections[n], n - 1, t)

\* `card_${Date.now()}_${Math.random().toString(36).substr(2, 9)}`
WsCardId(t, random) == <<t, random>>

\* one iteration of cards.forEach((card) => ...) of handleDetection
AddChannelCard(cards, card, random, t) ==
  IF ShouldInsert(cards, card.name, t)
    THEN LET cardId == WsCardId(t, random)
         IN MapSet(cards, cardId,
              [id |-> cardId,
               name |-> card.name,
               confidence |-> card.confidence,
               polygon |-> card.polygon,
               cropSize |-> card.crop_size,
               setId |-> OrElse(card.set, UnknownSet),
               cardId |-> OrElse(card.id, UnknownID),
               timestamp |-> t,
               kept |-> FALSE])
    ELSE cards

RECURSIVE AddChannelCards(_, _, _, _, _)
AddChannelCards(cards, list, randoms, n, t) ==
  IF n = 0 THEN cards
  ELSE AddChannelCard(AddChannelCards(cards, list, randoms, n - 1, t),
                      list[n], randoms[n], t)

----------------------------------------------------------------------------
(* Overlay renderer *)

\* the label of a detection: its best match's name or card_id, or `Card ${index + 1}`
\* (a card pushed over the channel has no matches)
LabelOf(detection, index) ==
  IF "matches" \in DOMAIN detection /\ Len(detection.matches) > 0
    THEN LET bestMatch == detection.matches[1]
         IN IF Truthy(bestMatch.name) /\ Truthy(Trim(bestMatch.name))
              THEN Trim(bestMatch.name)
            ELSE IF Truthy(bestMatch.card_id) /\ Truthy(Trim(bestMatch.card_id))
              THEN Trim(bestMatch.card_id)
            ELSE CardPrefix \o DecStr(index + 1)
    ELSE CardPrefix \o DecStr(index + 1)

\* detections.forEach((detection, index) => ...): what detections[1..n] draw,
\* a polygon with its label and its number for every detection that has a polygon.
\* It depends on the detections alone, so the callback that drawDetectionOverlay
\* registers is held in rafQueue as the list of what it will draw.
RECURSIVE DisplayList(_, _)
DisplayList(detections, n) ==
  IF n = 0 THEN <<>>
  ELSE LET before == DisplayList(detections, n - 1)
           detection == detections[n]
       IN IF Len(detection.polygon) > 0
            THEN Append(before, [polygon |-> detection.polygon,
                                 label |-> LabelOf(detection, n - 1),
                                 number |-> DecStr(n)])
            ELSE before

ClearRect(surface) == <<>>

\* the fonts of the 2d context: the one a canvas starts with, and the two the
\* pass assigns to ctx.font
DefaultFont == "10px sans-serif"
LabelFont == "bold 14px Arial"
BadgeFont == "bold 16px Arial"

FontPx(font) ==
  CASE font = DefaultFont -> 10
    [] font = LabelFont -> 14
    [] font = BadgeFont -> 16

\* ctx.measureText(text).width in the font the context holds: the advance of a
\* character is taken as the pixel size of the font
MeasureText(text, font) == Len(text) * FontPx(font)

\* what one detection draws, given the font the context holds when its label is
\* measured: the polygon, the label background and text, the number badge
DrawDetection(item, font) ==
  LET x == item.polygon[1][1]
      y == item.polygon[1][2]
      textWidth == MeasureText(item.label, font)
      textHeight == 20
  IN [polygon |-> item.polygon,
      labelBox |-> <<x - 10, y - 35, textWidth + 20, textHeight + 10>>,
      label |-> item.label,
      labelFont |-> LabelFont,
      labelAt |-> <<2 * x + textWidth, y - 20>>,      \* twice x + textWidth/2
      badgeBox |-> <<x - 25, y - 25, 30, 30>>,
      number |-> item.number,
      numberFont |-> BadgeFont]

\* the forEach of the pass over list[1..n], on a canvas [surface, font]: the label
\* of a detection is measured before ctx.font is assigned, its badge leaves
\* 'bold 16px Arial' in the context
RECURSIVE DrawAll(_, _, _)
DrawAll(canvas, list, n) ==
  IF n = 0 THEN canvas
  ELSE LET before == DrawAll(canvas, list, n - 1)
       IN [surface |-> Append(before.surface, DrawDetection(list[n], before.font)),
           font |-> BadgeFont]

\* the callback drawDetectionOverlay registers: clear, then draw
RenderPass(canvas, list) ==
  DrawAll([surface |-> ClearRect(canvas.surface), font |-> canvas.font], list, Len(list))

\* all callbacks registered before a display refresh run at it, in order
RECURSIVE RunPasses(_, _)
RunPasses(canvas, queue) ==
  IF queue = <<>> THEN canvas
  ELSE RunPasses(RenderPass(canvas, Head(queue)), Tail(queue))

----------------------------------------------------------------------------
(* Inputs *)

NoPolygon == <<>>
Square == << <<1, 1>>, <<3, 1>>, <<3, 3>>, <<1, 3>> >>

Match(name, card_id) ==
  [name |-> name, card_id |-> card_id, set_id |-> Undefined, distance |-> 3]

Matches ==
  { Match(StrPi, Undefined), Match(StrPiLower, Undefined),
    Match(StrBlank, StrE) }

Detection(polygon, matches) ==
  [polygon |-> polygon, crop_size |-> Undefined, matches |-> matches]

\* detections of the cache's inputs: the names vary, the polygon is empty
DetPi == Detection(NoPolygon, <<Match(StrPi, Undefined)>>)
DetPiLower == Detection(NoPolygon, <<Match(StrPiLower, Undefined)>>)
DetE == Detection(NoPolygon, <<Match(StrBlank, StrE)>>)
DetNoMatch == Detection(NoPolygon, <<>>)

Response(detections) == [num_detections |-> Len(detections), detections |-> detections]

\* a match whose name is no string, and responses that lack what the handler reads
DetWrongShape == Detection(NoPolygon, <<Match(NotAString, Undefined)>>)
DetSquarePi == Detection(Square, <<Match(StrPi, Undefined)>>)
NoDetectionsArray == [num_detections |-> 0]
MalformedResponses ==
  { NoDetectionsArray, Response(<<DetNoMatch>>), Response(<<DetWrongShape>>),
    Response(<<DetSquarePi, DetWrongShape>>) }

Responses ==
  { Response(ds) : ds \in { <<>>, <<DetPi>>, <<DetPiLower>>, <<DetE>>, <<DetNoMatch>>,
                            <<DetPi, DetPiLower>>, <<DetE, DetPi>> } }

ChannelCard(name) ==
  [name |-> name, confidence |-> 0, polygon |-> NoPolygon, crop_size |-> Undefined,
   set |-> Undefined, id |-> Undefined]

ChannelLists ==
  { <<>>, <<ChannelCard(StrPiLower)>>, <<ChannelCard(StrE)>>,
    <<ChannelCard(StrPiLower), ChannelCard(StrPi)>> }

RandomSuffixes == { <<48>>, <<107, 51>> }     \* "0", "k3"

AbsentId == <<0, <<120>>>>

\* the instants the clock visits: around every multiple of the cooldown
Instants ==
  {0} \cup { k * CooldownMs + d : k \in 1..MaxWindows, d \in {-1, 0, 1} }

----------------------------------------------------------------------------
(* Cache and renderer operations *)

\* requestAnimationFrame(() => { ... detections ... })
DrawDetectionOverlay(detections) ==
  /\ Len(rafQueue) < MaxPending
  /\ rafQueue' = Append(rafQueue, DisplayList(detections, Len(detections)))
  /\ UNCHANGED <<overlay, ctxFont>>

ClearOverlay ==
  /\ overlay' = ClearRect(overlay)
  /\ UNCHANGED <<rafQueue, ctxFont>>

NoDetections(data) == FALSE

\* data.detections && data.detections.length > 0
HasDetections(data) == "detections" \in DOMAIN data /\ Len(data.detections) > 0

\* the first of the first n detections whose iteration throws, or 0
RECURSIVE FirstThrow(_, _)
FirstThrow(detections, n) ==
  IF n = 0 THEN 0
  ELSE LET before == FirstThrow(detections, n - 1)
       IN IF before > 0 THEN before
          ELSE IF /\ Len(detections[n].matches) > 0
                  /\ ResolveThrows(detections[n].matches[1])
            THEN n
          ELSE 0

\* the forEach of handleBackendResponse(data) throws
HandlerThrows(data) ==
  HasDetections(data) /\ FirstThrow(data.detections, Len(data.detections)) > 0

\* the detections of a response that forEach goes through without throwing
Iterated(data) ==
  IF ~HasDetections(data) THEN <<>>
  ELSE IF HandlerThrows(data)
    THEN SubSeq(data.detections, 1, FirstThrow(data.detections, Len(data.detections)) - 1)
  ELSE data.detections

\* handleBackendResponse(data); an exception thrown in forEach leaves the
\* cards set before it and skips the drawing
HandleBackendResponseBody(data) ==
  IF ~HasDetections(data)
    THEN /\ detectedCards' = detectedCards
         /\ ClearOverlay
         /\ latest' = <<>>
  ELSE IF HandlerThrows(data)
    THEN /\ detectedCards' =
              AddDetections(detectedCards, Iterated(data), Len(Iterated(data)), now)
         /\ UNCHANGED renderVars
  ELSE /\ detectedCards' =
            AddDetections(detectedCards, data.detections, Len(data.detections), now)
       /\ DrawDetectionOverlay(data.detections)
       /\ latest' = DisplayList(data.detections, Len(data.detections))

\* the card names of the detections of a response (Undefined: no match)
NamesOf(detections) ==
  [n \in 1..Len(detections) |->
     IF Len(detections[n].matches) > 0
       THEN ResolveName(detections[n].matches[1]) ELSE Undefined]

Op(op, names) == [op |-> op, names |-> names]

\* an entry logMessage(message, level) appends to the message log; the message
\* is named by its fixed part
Entry(message, level) == [message |-> message, level |-> level]

\* the operation that ran last, with the entries it appended to the message log
OpLog(op, names, log) == [op |-> op, names |-> names, log |-> log]

\* the entries handleBackendResponse appends for the first n detections: one for
\* each card it stores
RECURSIVE NewCardLog(_, _, _, _)
NewCardLog(cards, detections, n, t) ==
  IF n = 0 THEN <<>>
  ELSE LET before == AddDetections(cards, detections, n - 1, t)
           detection == detections[n]
       IN NewCardLog(cards, detections, n - 1, t) \o
          (IF /\ Len(detection.matches) > 0
              /\ ShouldInsert(before, ResolveName(detection.matches[1]), t)
             THEN <<Entry("New card detected", "info")>>
             ELSE <<>>)

HandleBackendResponse(data) ==
  /\ HandleBackendResponseBody(data)
  /\ lastOp' = Op("handleBackendResponse", NamesOf(Iterated(data)))
  /\ UNCHANGED <<now, captureVars, channelVars, sessionVars>>

HandleDetectionBody(cards, randoms) ==
  IF Len(cards) = 0
    THEN UNCHANGED <<detectedCards, renderVars>>
    ELSE /\ detectedCards' =
              AddChannelCards(detectedCards, cards, randoms, Len(cards), now)
         /\ DrawDetectionOverlay(cards)
         /\ latest' = latest

HandleDetection(cards, randoms) ==
  /\ HandleDetectionBody(cards, randoms)
  /\ lastOp' = Op("handleDetection", [n \in 1..Len(cards) |-> cards[n].name])
  /\ UNCHANGED <<now, captureVars, channelVars, sessionVars>>

ToggleKeepCard(cardId) ==
  /\ detectedCards' =
       IF cardId \in DOMAIN detectedCards
         THEN [detectedCards EXCEPT ![cardId] = ToggleKept(detectedCards[cardId])]
         ELSE detectedCards
  /\ lastOp' = Op("toggleKeepCard", <<>>)
  /\ UNCHANGED <<now, renderVars, captureVars, channelVars, sessionVars>>

\* removeCard(cardId); the name of the card it removed is logged
RemoveCard(cardId) ==
  /\ IF cardId \in DOMAIN detectedCards
       THEN /\ detectedCards' = MapDelete(detectedCards, cardId)
            /\ lastOp' = Op("removeCard", <<detectedCards[cardId].name>>)
       ELSE /\ detectedCards' = detectedCards
            /\ lastOp' = Op("removeCard", <<>>)
  /\ UNCHANGED <<now, renderVars, captureVars, channelVars, sessionVars>>

\* removeAllCards(); the number of cards it removed is logged
RemoveAllCards ==
  /\ IF Cardinality(DOMAIN detectedCards) = 0
       THEN /\ detectedCards' = detectedCards
            /\ lastOp' = Op("noCardsToRemove", <<>>)
       ELSE LET cardCount == Cardinality(DOMAIN detectedCards)
            IN /\ detectedCards' = MapClear(detectedCards)
               /\ lastOp' = [op |-> "removeAllCards", names |-> <<>>, count |-> cardCount]
  /\ UNCHANGED <<now, renderVars, captureVars, channelVars, sessionVars>>

AdvanceClock ==
  /\ \E t \in Instants : t > now /\ now' = t
  /\ lastOp' = Op("clock", <<>>)
  /\ UNCHANGED <<detectedCards, renderVars, captureVars, channelVars, sessionVars>>

\* a display refresh: the registered callbacks run, in the order registered
AnimationFrame ==
  /\ rafQueue # <<>>
  /\ LET canvas == RunPasses([surface |-> overlay, font |-> ctxFont], rafQueue)
     IN /\ overlay' = canvas.surface
        /\ ctxFont' = canvas.font
  /\ rafQueue' = <<>>
  /\ latest' = latest
  /\ lastOp' = Op("animationFrame", <<>>)
  /\ UNCHANGED <<cacheVars, captureVars, channelVars, sessionVars>>

----------------------------------------------------------------------------
(* Capture scheduler and recognition client *)

NoCalls == [fetch |-> 0, body |-> 0, errorBody |-> 0]

Outstanding(c) == c.fetch + c.body + c.errorBody

\* values of the speed slider, in frames per second
SpeedValues == {1, 2}

\* the fields the constructor sets; the run starts from one slider value and
\* UpdateProcessingSpeed reaches the others
InitCapture ==
  /\ stream = FALSE
  /\ gumPending = 0
  /\ isProcessing = FALSE
  /\ processingInterval = FALSE
  /\ captureTimers = <<>>
  /\ fps = CHOOSE v \in SpeedValues : \A w \in SpeedValues : v <= w
  /\ delays = 0
  /\ blobs = 0
  /\ calls = NoCalls

DropLast(timers) == SubSeq(timers, 1, Len(timers) - 1)

KeptTimers == captureTimers

\* clearInterval(this.processingInterval): the handle is that of the newest timer
ClearedTimers == IF processingInterval THEN DropLast(captureTimers) ELSE captureTimers

NoStreamNever(hasStream) == FALSE

\* if (!this.stream) return
NoStream(hasStream) == ~hasStream

\* const intervalMs = 1000 / fps, as the whole milliseconds a timer runs with
IntervalMs(speed) == 1000 \div speed

\* startPeriodicProcessing(), with the stream and the slider value it reads
StartPeriodicProcessing(hasStream, speed) ==
  IF NoStream(hasStream)
    THEN UNCHANGED <<processingInterval, captureTimers>>
    ELSE /\ captureTimers' = Append(ClearedTimers, IntervalMs(speed))
         /\ processingInterval' = TRUE

StaleHandle == processingInterval

\* this.processingInterval = null
NullHandle == FALSE

TimerKeptRunning == UNCHANGED <<processingInterval, captureTimers>>

\* stopPeriodicProcessing()
StopPeriodicProcessing ==
  /\ captureTimers' = ClearedTimers
  /\ processingInterval' = NullHandle

\* startCamera(): navigator.mediaDevices.getUserMedia(...)
StartCamera ==
  /\ gumPending < MaxCameraRequests
  /\ gumPending' = gumPending + 1
  /\ UNCHANGED <<stream, isProcessing, processingInterval, captureTimers, fps,
                 delays, blobs, calls, renderVars>>

\* stopCamera()
StopCamera ==
  IF stream
    THEN /\ stream' = FALSE
         /\ ClearOverlay
         /\ StopPeriodicProcessing
         /\ UNCHANGED <<gumPending, isProcessing, fps, delays, blobs, calls, latest>>
    ELSE UNCHANGED <<captureVars, renderVars>>

\* click on the start button
ToggleCamera ==
  /\ IF stream THEN StopCamera ELSE StartCamera
  /\ lastOp' = Op("toggleCamera", <<>>)
  /\ UNCHANGED <<cacheVars, channelVars, sessionVars>>

\* getUserMedia settles: .then((stream) => ...) or .catch(...)
GetUserMediaSettles(granted) ==
  /\ gumPending > 0
  /\ gumPending' = gumPending - 1
  /\ stream' = IF granted THEN TRUE ELSE stream
  /\ lastOp' = IF granted
                 THEN Op("cameraGranted", <<>>)
                 ELSE OpLog("cameraDenied", <<>>, <<Entry("Camera error", "error")>>)
  /\ UNCHANGED <<isProcessing, processingInterval, captureTimers, fps, delays, blobs,
                 calls, cacheVars, renderVars, channelVars, sessionVars>>

\* the video of the stream can play: webcam.oncanplay.  Assigning the width and
\* the height of a canvas clears it and resets its context to the initial state.
VideoCanPlay ==
  /\ stream
  /\ overlay' = <<>>
  /\ ctxFont' = DefaultFont
  /\ StartPeriodicProcessing(stream, fps)
  /\ lastOp' = Op("canplay", <<>>)
  /\ UNCHANGED <<stream, gumPending, isProcessing, fps, delays, blobs, calls,
                 rafQueue, latest, cacheVars, channelVars, sessionVars>>

\* a call of startPeriodicProcessing(), whatever the state of the session
CallStartPeriodicProcessing ==
  /\ StartPeriodicProcessing(stream, fps)
  /\ lastOp' = Op("startPeriodicProcessing", <<>>)
  /\ UNCHANGED <<stream, gumPending, isProcessing, fps, delays, blobs, calls,
                 cacheVars, renderVars, channelVars, sessionVars>>

\* a call of stopPeriodicProcessing(), whatever the state of the session
CallStopPeriodicProcessing ==
  /\ StopPeriodicProcessing
  /\ lastOp' = Op("stopPeriodicProcessing", <<>>)
  /\ UNCHANGED <<stream, gumPending, isProcessing, fps, delays, blobs, calls,
                 cacheVars, renderVars, channelVars, sessionVars>>

\* input event of the speed slider: updateProcessingSpeed()
UpdateProcessingSpeed(speed) ==
  /\ fps' = speed
  /\ IF processingInterval
       THEN StartPeriodicProcessing(stream, speed)
       ELSE UNCHANGED <<processingInterval, captureTimers>>
  /\ lastOp' = Op("updateProcessingSpeed", <<>>)
  /\ UNCHANGED <<stream, gumPending, isProcessing, delays, blobs, calls,
                 cacheVars, renderVars, channelVars, sessionVars>>

TickGuardAlways(hasStream, processing) == TRUE

TickGuardConnected(hasStream, processing) == hasStream /\ ~processing /\ isConnected

\* if (this.stream && !this.isProcessing), of the interval callback
TickGuard(hasStream, processing) == hasStream /\ ~processing

\* a capture interval timer fires
CaptureTick ==
  /\ captureTimers # <<>>
  /\ IF TickGuard(stream, isProcessing)
       THEN /\ delays < MaxPipeline
            /\ delays' = delays + 1
       ELSE delays' = delays
  /\ lastOp' = Op("tick", <<>>)
  /\ UNCHANGED <<stream, gumPending, isProcessing, processingInterval, captureTimers,
                 fps, blobs, calls, cacheVars, renderVars, channelVars, sessionVars>>

\* the 25 ms timeout fires: if (this.stream && !this.isProcessing) this.captureFrame()
DelayedCapture ==
  /\ delays > 0
  /\ delays' = delays - 1
  /\ IF stream /\ ~isProcessing
       THEN /\ blobs < MaxPipeline
            /\ blobs' = blobs + 1
       ELSE blobs' = blobs
  /\ lastOp' = Op("delayedCapture", <<>>)
  /\ UNCHANGED <<stream, gumPending, isProcessing, processingInterval, captureTimers,
                 fps, calls, cacheVars, renderVars, channelVars, sessionVars>>

AlreadyProcessingNever(processing) == FALSE

\* if (this.isProcessing) { ... return; }
AlreadyProcessing(processing) == processing

SilentFailure == <<>>

\* the catch block of processFrameWithBackend
FailureLog ==
  <<Entry("Backend processing error", "error"), Entry("Error type", "error")>>

FlagHeld == TRUE

\* the finally block of processFrameWithBackend: this.isProcessing = false
FlagCleared == FALSE

FlagClearedOnSkip(processing) == FALSE

\* the return of a skipped call precedes the try block: finally does not run
FlagAfterSkip(processing) == processing

\* the toBlob callback: processFrameWithBackend(blob), up to its first await.
\* A null blob (a canvas of no size) makes formData.append throw, which the
\* catch logs and the finally block follows.
ProcessFrameWithBackend(hasBlob) ==
  /\ blobs > 0
  /\ blobs' = blobs - 1
  /\ IF AlreadyProcessing(isProcessing)
       THEN /\ isProcessing' = FlagAfterSkip(isProcessing)
            /\ calls' = calls
            /\ lastOp' = Op("processFrameSkipped", <<>>)
       ELSE IF hasBlob
         THEN /\ Outstanding(calls) < MaxCalls
              /\ isProcessing' = TRUE
              /\ calls' = [calls EXCEPT !.fetch = @ + 1]
              /\ lastOp' = Op("processFrame", <<>>)
         ELSE /\ isProcessing' = FlagCleared
              /\ calls' = calls
              /\ lastOp' = OpLog("processFrameFailed", <<>>, FailureLog)
  /\ UNCHANGED <<stream, gumPending, processingInterval, captureTimers, fps, delays,
                 cacheVars, renderVars, channelVars, sessionVars>>

\* fetch resolves with a response: await response.json() follows, of the body
\* or, if (!response.ok), of the error body
FetchResolves(ok) ==
  /\ calls.fetch > 0
  /\ calls' = IF ok THEN [calls EXCEPT !.fetch = @ - 1, !.body = @ + 1]
                    ELSE [calls EXCEPT !.fetch = @ - 1, !.errorBody = @ + 1]
  /\ lastOp' = Op("fetchResolved", <<>>)
  /\ UNCHANGED <<stream, gumPending, isProcessing, processingInterval, captureTimers,
                 fps, delays, blobs, cacheVars, renderVars, channelVars, sessionVars>>

\* the request fails (fetch rejects), the error body was read (the handler throws
\* HTTP <status>), or the body is no JSON: catch logs, finally clears the flag
RequestFails(at) ==
  /\ calls[at] > 0
  /\ calls' = [calls EXCEPT ![at] = @ - 1]
  /\ isProcessing' = FlagCleared
  /\ lastOp' = OpLog("requestFailed", <<>>, FailureLog)
  /\ UNCHANGED <<stream, gumPending, processingInterval, captureTimers, fps, delays,
                 blobs, cacheVars, renderVars, channelVars, sessionVars>>

\* the body of a successful response was parsed: handleBackendResponse(data),
\* then the finally block
ResponseHandled(data) ==
  /\ calls.body > 0
  /\ calls' = [calls EXCEPT !.body = @ - 1]
  /\ HandleBackendResponseBody(data)
  /\ isProcessing' = FlagCleared
  /\ lastOp' =
       LET log == (IF data.num_detections > 0
                     THEN <<Entry("Successfully received response", "info")>>
                     ELSE <<>>) \o
                  NewCardLog(detectedCards, Iterated(data), Len(Iterated(data)), now)
       IN IF HandlerThrows(data)
            THEN OpLog("responseThrew", NamesOf(Iterated(data)), log \o FailureLog)
            ELSE OpLog("responseHandled", NamesOf(Iterated(data)), log)
  /\ UNCHANGED <<now, stream, gumPending, processingInterval, captureTimers, fps,
                 delays, blobs, channelVars, sessionVars>>


----------------------------------------------------------------------------
(* The controller of app.js: Start, Stop and Capture buttons *)

\* the constructor leaves this.stream null; the page has Start enabled and Stop
\* and Capture disabled.  `requests` are the getUserMedia calls that have not
\* settled, `running` the streams acquired whose tracks have not been stopped,
\* `blobs` the pending toBlob callbacks and `reads` the pending FileReader reads.
InitControls ==
  [stream |-> FALSE, requests |-> 0, running |-> 0,
   startDisabled |-> FALSE, stopDisabled |-> TRUE, captureDisabled |-> TRUE,
   blobs |-> 0, reads |-> 0]

\* a click on Start: startCamera() up to its await
StartClick ==
  /\ ~controls.startDisabled
  /\ controls.requests < MaxStartClicks
  /\ controls' = [controls EXCEPT !.requests = @ + 1]
  /\ lastOp' = OpLog("startCamera", <<>>, <<Entry("Requesting camera access...", "info")>>)
  /\ UNCHANGED <<cacheVars, renderVars, captureVars, channelVars,
                 healthCheckInterval, connectivityTimer, cleanedUp, logVars, serverVars>>

StopStaysDisabled == TRUE

\* this.stopBtn.disabled = false
StopEnabled == FALSE

\* getUserMedia settles: startCamera() after its await, or its catch
CameraSettles(granted) ==
  /\ controls.requests > 0
  /\ IF granted
       THEN /\ controls.running < MaxStreams
            /\ controls' = [controls EXCEPT !.requests = @ - 1,
                                            !.stream = TRUE,
                                            !.running = @ + 1,
                                            !.startDisabled = TRUE,
                                            !.stopDisabled = StopEnabled,
                                            !.captureDisabled = FALSE]
            /\ lastOp' = OpLog("cameraStarted", <<>>,
                               <<Entry("Camera started successfully", "info")>>)
       ELSE /\ controls' = [controls EXCEPT !.requests = @ - 1]
            /\ lastOp' = OpLog("cameraError", <<>>, <<Entry("Camera error", "error")>>)
  /\ UNCHANGED <<cacheVars, renderVars, captureVars, channelVars,
                 healthCheckInterval, connectivityTimer, cleanedUp, logVars, serverVars>>

\* a click on Stop: stopCamera() stops the tracks of the stream this.stream holds
StopClick ==
  /\ ~controls.stopDisabled
  /\ IF controls.stream
       THEN /\ controls' = [controls EXCEPT !.stream = FALSE,
                                            !.running = @ - 1,
                                            !.startDisabled = FALSE,
                                            !.stopDisabled = TRUE,
                                            !.captureDisabled = TRUE]
            /\ lastOp' = OpLog("stopCamera", <<>>, <<Entry("Camera stopped", "info")>>)
       ELSE /\ controls' = controls
            /\ lastOp' = OpLog("stopCamera", <<>>, <<>>)
  /\ UNCHANGED <<cacheVars, renderVars, captureVars, channelVars,
                 healthCheckInterval, connectivityTimer, cleanedUp, logVars, serverVars>>

\* a click on Capture: captureFrame(), up to canvas.toBlob
CaptureClick ==
  /\ ~controls.captureDisabled
  /\ IF controls.stream
       THEN /\ controls.blobs < MaxPipeline
            /\ controls' = [controls EXCEPT !.blobs = @ + 1]
       ELSE controls' = controls
  /\ lastOp' =
       IF controls.stream
         THEN OpLog("captureFrame", <<>>,
                    <<Entry("Frame captured and sent for processing", "info")>>)
         ELSE OpLog("captureFrame", <<>>, <<Entry("No camera stream available", "error")>>)
  /\ UNCHANGED <<cacheVars, renderVars, captureVars, channelVars,
                 healthCheckInterval, connectivityTimer, cleanedUp, logVars, serverVars>>

\* the toBlob callback: reader.readAsDataURL(blob)
BlobReady ==
  /\ controls.blobs > 0
  /\ controls.reads < MaxPipeline
  /\ controls' = [controls EXCEPT !.blobs = @ - 1, !.reads = @ + 1]
  /\ lastOp' = Op("readAsDataURL", <<>>)
  /\ UNCHANGED <<cacheVars, renderVars, captureVars, channelVars,
                 healthCheckInterval, connectivityTimer, cleanedUp, logVars, serverVars>>

\* reader.onloadend: sendFrame(base64data) sends the frame if the socket is open
ReadEnds(open) ==
  /\ controls.reads > 0
  /\ controls' = [controls EXCEPT !.reads = @ - 1]
  /\ lastOp' = IF open
                 THEN OpLog("sendFrame", <<>>, <<>>)
                 ELSE OpLog("sendFrame", <<>>, <<Entry("Not connected to server", "error")>>)
  /\ UNCHANGED <<cacheVars, renderVars, captureVars, channelVars,
                 healthCheckInterval, connectivityTimer, cleanedUp, logVars, serverVars>>

NextControls ==
  \/ StartClick
  \/ \E granted \in BOOLEAN : CameraSettles(granted)
  \/ StopClick
  \/ CaptureClick
  \/ BlobReady
  \/ \E open \in BOOLEAN : ReadEnds(open)

----------------------------------------------------------------------------
(* Notification channel: WebSocket, heartbeat, reconnect; and cleanup *)

NoOrphans == [connecting |-> 0, open |-> 0, closing |-> 0]

Alive(readyState) == readyState \in {"connecting", "open", "closing"}

LiveSockets ==
  orphans.connecting + orphans.open + orphans.closing + (IF Alive(ws) THEN 1 ELSE 0)

\* the constructor has called connectWebSocket(), startBackendHealthCheck() and
\* setTimeout(..., 1000); heartbeatInterval is not yet set
InitChannel ==
  /\ ws = "connecting"
  /\ orphans = NoOrphans
  /\ isConnected = FALSE
  /\ heartbeatInterval = FALSE
  /\ heartbeats = 0
  /\ reconnectTimers = 0
  /\ healthCheckInterval = TRUE
  /\ connectivityTimer = TRUE
  /\ cleanedUp = FALSE
  /\ messageLog = <<>>
  /\ arrivals = <<>>
  /\ connections = <<>>
  /\ controls = InitControls

\* connectWebSocket(): this.ws = new WebSocket(wsUrl), inside try; when the
\* constructor throws, the catch logs and this.ws keeps the socket it held
ConnectWebSocket(throws) ==
  IF throws
    THEN UNCHANGED <<ws, orphans>>
    ELSE /\ LiveSockets < MaxSockets
         /\ orphans' = IF Alive(ws) THEN [orphans EXCEPT ![ws] = @ + 1] ELSE orphans
         /\ ws' = "connecting"

\* startHeartbeat(): this.heartbeatInterval = setInterval(...)
StartHeartbeat ==
  /\ heartbeats < MaxTimers
  /\ heartbeats' = heartbeats + 1
  /\ heartbeatInterval' = TRUE

\* stopHeartbeat()
StopHeartbeat ==
  /\ heartbeats' = IF heartbeatInterval THEN heartbeats - 1 ELSE heartbeats
  /\ heartbeatInterval' = FALSE

\* a socket leaves readyState `from`: the one this.ws holds, or an orphan
SocketLeaves(current, from, to) ==
  IF current
    THEN /\ ws = from
         /\ ws' = to
         /\ orphans' = orphans
    ELSE /\ orphans[from] > 0
         /\ orphans' = IF Alive(to)
                         THEN [orphans EXCEPT ![from] = @ - 1, ![to] = @ + 1]
                         ELSE [orphans EXCEPT ![from] = @ - 1]
         /\ ws' = ws

\* ws.onopen
SocketOpens(current) ==
  /\ SocketLeaves(current, "connecting", "open")
  /\ isConnected' = TRUE
  /\ StartHeartbeat
  /\ lastOp' = Op("onopen", <<>>)
  /\ UNCHANGED <<reconnectTimers, cacheVars, renderVars, captureVars, sessionVars>>

\* ws.onclose (after ws.onerror, which only logs, when the socket failed)
SocketCloses(current, from) ==
  /\ SocketLeaves(current, from, "closed")
  /\ isConnected' = FALSE
  /\ StopHeartbeat
  /\ reconnectTimers < MaxTimers
  /\ reconnectTimers' = reconnectTimers + 1
  /\ lastOp' = Op("onclose", <<>>)
  /\ UNCHANGED <<cacheVars, renderVars, captureVars, sessionVars>>

\* the 3000 ms timeout set by onclose fires
ReconnectTimerFires(throws) ==
  /\ reconnectTimers > 0
  /\ reconnectTimers' = reconnectTimers - 1
  /\ IF ~isConnected
       THEN /\ ConnectWebSocket(throws)
            /\ lastOp' = Op(IF throws THEN "connectFailed" ELSE "connect", <<>>)
       ELSE /\ UNCHANGED <<ws, orphans>>
            /\ lastOp' = Op("reconnectSkipped", <<>>)
  /\ UNCHANGED <<isConnected, heartbeatInterval, heartbeats,
                 cacheVars, renderVars, captureVars, sessionVars>>

\* visibilitychange: if (!document.hidden && !this.isConnected) this.connectWebSocket()
VisibilityChange(hidden, throws) ==
  /\ IF ~hidden /\ ~isConnected
       THEN /\ ConnectWebSocket(throws)
            /\ lastOp' = Op(IF throws THEN "connectFailed" ELSE "connect", <<>>)
       ELSE /\ UNCHANGED <<ws, orphans>>
            /\ lastOp' = Op("visibilitychange", <<>>)
  /\ UNCHANGED <<isConnected, heartbeatInterval, heartbeats, reconnectTimers,
                 cacheVars, renderVars, captureVars, sessionVars>>

\* ws.onerror of a socket that is not closed: logged
SocketError(current) ==
  /\ IF current THEN Alive(ws) ELSE LiveSockets > (IF Alive(ws) THEN 1 ELSE 0)
  /\ lastOp' = OpLog("onerror", <<>>, <<Entry("WebSocket error", "error")>>)
  /\ UNCHANGED <<cacheVars, renderVars, captureVars, channelVars, sessionVars>>

\* a heartbeat timer fires: a ping is sent if this.ws is open
HeartbeatTick ==
  /\ heartbeats > 0
  /\ lastOp' = Op(IF ws = "open" THEN "ping" ELSE "heartbeatIdle", <<>>)
  /\ UNCHANGED <<cacheVars, renderVars, captureVars, channelVars, sessionVars>>

SocketIsOpen(current) == IF current THEN ws = "open" ELSE orphans.open > 0

\* the types handleMessage has a case for, a type it has none for, and a
\* payload JSON.parse rejects
MessageTypes ==
  {"connected", "processing", "detection", "error", "pong", "unknown", "invalid"}

IsDetectionOrUnknown(type) == type \in {"detection", "unknown"}

\* case 'detection':
IsDetection(type) == type = "detection"

\* what handleMessage(data) appends to the message log
MessageLog(type) ==
  IF type = "connected" THEN <<Entry("data.message", "info")>>
  ELSE IF type = "processing" THEN <<Entry("Processing frame...", "info")>>
  ELSE IF type = "error" THEN <<Entry("Error", "error")>>
  ELSE <<>>

\* ws.onmessage: JSON.parse(event.data), then handleMessage(data); data.cards
\* goes to handleDetection if the type is 'detection'
ChannelMessage(current, type, cards, randoms) ==
  /\ SocketIsOpen(current)
  /\ IF type # "invalid" /\ IsDetection(type)
       THEN /\ HandleDetectionBody(cards, randoms)
            /\ lastOp' = Op("handleDetection", [n \in 1..Len(cards) |-> cards[n].name])
       ELSE /\ UNCHANGED <<detectedCards, renderVars>>
            /\ lastOp' = [op |-> "message", names |-> <<>>, type |-> type,
                          log |-> MessageLog(type)]
  /\ UNCHANGED <<now, captureVars, channelVars, sessionVars>>

\* ws.onmessage with a message of type 'detection': handleDetection(data.cards)
DetectionMessage(current, cards, randoms) ==
  ChannelMessage(current, "detection", cards, randoms)

\* ws.onmessage with a message of another type, or one that is no JSON
OtherMessage(current, type, cards, randoms) ==
  /\ type # "detection"
  /\ ChannelMessage(current, type, cards, randoms)

\* the health check timer fires: checkBackendHealth() updates the status display
HealthCheckTick ==
  /\ healthCheckInterval
  /\ lastOp' = Op("checkBackendHealth", <<>>)
  /\ UNCHANGED <<cacheVars, renderVars, captureVars, channelVars, sessionVars>>

\* the constructor's timeout fires: testBackendConnectivity() logs
ConnectivityTimerFires ==
  /\ connectivityTimer
  /\ connectivityTimer' = FALSE
  /\ lastOp' = Op("testBackendConnectivity", <<>>)
  /\ UNCHANGED <<healthCheckInterval, cleanedUp, logVars, serverVars, appVars,
                 cacheVars, renderVars, captureVars, channelVars>>

\* cleanup(), on beforeunload
Cleanup ==
  /\ healthCheckInterval' = FALSE
  /\ StopHeartbeat
  /\ ws' = IF ws \in {"connecting", "open"} THEN "closing" ELSE ws
  /\ IF stream
       THEN StopCamera
       ELSE /\ StopPeriodicProcessing
            /\ UNCHANGED <<stream, gumPending, isProcessing, fps, delays, blobs, calls,
                           renderVars>>
  /\ cleanedUp' = TRUE
  /\ lastOp' = Op("cleanup", <<>>)
  /\ UNCHANGED <<orphans, isConnected, reconnectTimers, connectivityTimer, logVars,
                 serverVars, appVars, cacheVars>>

----------------------------------------------------------------------------
(* The message log.  The entries an operation appends are recorded with the
   operation in lastOp; the log element itself is followed here, under calls of
   logMessage by whichever operation makes them. *)

\* while (this.messageLog.children.length > 50)
MaxLogEntries == 50

ErrorColor == "#ef4444"

\* the div logMessage creates: `[${timestamp}] ${message}`, red for an error
LogEntry(t, message, level) ==
  [text |-> <<t, message>>, color |-> IF level = "error" THEN ErrorColor ELSE ""]

EvictNewest(entries) == SubSeq(entries, 1, Len(entries) - 1)

\* this.messageLog.removeChild(this.messageLog.firstChild)
EvictOldest(entries) == Tail(entries)

RECURSIVE KeepLast(_)
KeepLast(entries) ==
  IF Len(entries) > MaxLogEntries THEN KeepLast(EvictOldest(entries)) ELSE entries

Errors(entries) == Cardinality({n \in 1..Len(entries) : entries[n].color = ErrorColor})

\* logMessage(message, level); the messages are numbered as they arrive
LogMessage(level) ==
  /\ Len(arrivals) < MaxMessages
  /\ level = "error" => Errors(arrivals) < MaxErrors
  /\ LET entry == LogEntry(now, DecStr(Len(arrivals) + 1), level)
     IN /\ messageLog' = KeepLast(Append(messageLog, entry))
        /\ arrivals' = Append(arrivals, entry)
  /\ lastOp' = Op("logMessage", <<>>)
  /\ UNCHANGED <<cacheVars, renderVars, captureVars, channelVars,
                 healthCheckInterval, connectivityTimer, cleanedUp, serverVars,
                 appVars>>

----------------------------------------------------------------------------
(* The state after construction, and the cache driven by its operations in any order *)

Init ==
  /\ detectedCards = EmptyMap
  /\ now = 0
  /\ rafQueue = <<>>
  /\ overlay = <<>>
  /\ ctxFont = DefaultFont
  /\ latest = <<>>
  /\ InitCapture
  /\ InitChannel
  /\ lastOp = Op("constructor", <<>>)

NextCache ==
  \/ \E data \in Responses : HandleBackendResponse(data)
  \/ \E cards \in ChannelLists :
       \E randoms \in [1..Len(cards) -> RandomSuffixes] : HandleDetection(cards, randoms)
  \/ \E id \in DOMAIN detectedCards \cup {AbsentId} : ToggleKeepCard(id)
  \/ \E id \in DOMAIN detectedCards \cup {AbsentId} : RemoveCard(id)
  \/ RemoveAllCards
  \/ AdvanceClock
  \/ AnimationFrame

SpecCache == Init /\ [][NextCache]_vars

----------------------------------------------------------------------------
(* The names the cache stores and the renderer draws, over best matches whose
   name, card_id and set_id are absent, empty, blank or padded *)

StrPadPi == <<32, 80, 105, 32>>    \* " Pi "
StrS == <<83>>                     \* "S"
StrX == <<88>>                     \* "X"

NameMatches ==
  { [name |-> name, card_id |-> card_id, set_id |-> set_id, distance |-> 3] :
      name \in {Undefined, <<>>, StrBlank, StrPadPi},
      card_id \in {Undefined, StrBlank, StrE},
      set_id \in {Undefined, StrBlank, StrS} }

\* one detection with a polygon; its best match alone, or followed by a match
\* named "X"
NameResponses ==
  { Response(<<Detection(Square, matches)>>) :
      matches \in { <<m>> : m \in NameMatches } \cup
                  { <<m, Match(StrX, StrX)>> : m \in NameMatches } }

\* a card of a 'detection' message with a polygon
NameChannelLists ==
  { <<[ChannelCard(name) EXCEPT !.polygon = Square]>> : name \in {StrPi, StrE} }

NextNaming ==
  \/ \E data \in NameResponses : HandleBackendResponse(data)
  \/ \E cards \in NameChannelLists :
       \E randoms \in [1..Len(cards) -> RandomSuffixes] : HandleDetection(cards, randoms)
  \/ RemoveAllCards
  \/ AnimationFrame

SpecNaming == Init /\ [][NextNaming]_vars

----------------------------------------------------------------------------
(* The capture scheduler, from the camera to the handled response *)

\* the responses of the recognition service in the capture runs
CaptureResponses ==
  { Response(<<>>), Response(<<DetSquarePi>>) } \cup MalformedResponses

NextCapture ==
  \/ ToggleCamera
  \/ \E granted \in BOOLEAN : GetUserMediaSettles(granted)
  \/ VideoCanPlay
  \/ CallStartPeriodicProcessing
  \/ CallStopPeriodicProcessing
  \/ \E speed \in SpeedValues : UpdateProcessingSpeed(speed)
  \/ CaptureTick
  \/ DelayedCapture
  \/ \E hasBlob \in BOOLEAN : ProcessFrameWithBackend(hasBlob)
  \/ \E ok \in BOOLEAN : FetchResolves(ok)
  \/ \E at \in {"fetch", "body", "errorBody"} : RequestFails(at)
  \/ \E data \in CaptureResponses : ResponseHandled(data)
  \/ AnimationFrame

SpecCapture == Init /\ [][NextCapture]_vars

\* The timers of the browser fire and its callbacks are called: an interval
\* timer that stays set fires, a 25 ms timeout that is pending fires, a toBlob
\* callback that is pending is called; and a camera that keeps delivering
\* frames lets toBlob produce a blob again and again.
SpecCaptureFair ==
  /\ SpecCapture
  /\ WF_vars(CaptureTick)
  /\ WF_vars(DelayedCapture)
  /\ WF_vars(\E hasBlob \in BOOLEAN : ProcessFrameWithBackend(hasBlob))
  /\ SF_vars(ProcessFrameWithBackend(TRUE))

----------------------------------------------------------------------------
(* The notification channel and the session's timers *)

ChannelCardLists == { <<>>, <<ChannelCard(StrPi)>> }

NextChannel ==
  \/ \E current \in BOOLEAN : SocketOpens(current)
  \/ \E current \in BOOLEAN : \E from \in {"connecting", "open", "closing"} :
       SocketCloses(current, from)
  \/ \E throws \in BOOLEAN : ReconnectTimerFires(throws)
  \/ \E hidden \in BOOLEAN : \E throws \in BOOLEAN : VisibilityChange(hidden, throws)
  \/ HeartbeatTick
  \/ \E current \in BOOLEAN : \E cards \in ChannelCardLists :
       \E randoms \in [1..Len(cards) -> RandomSuffixes] :
         DetectionMessage(current, cards, randoms)
  \/ \E current \in BOOLEAN : \E type \in MessageTypes : \E cards \in ChannelCardLists :
       \E randoms \in [1..Len(cards) -> RandomSuffixes] :
         OtherMessage(current, type, cards, randoms)
  \/ HealthCheckTick
  \/ ConnectivityTimerFires
  \/ Cleanup
  \/ AnimationFrame

SpecChannel == Init /\ [][NextChannel]_vars

\* the capture path and the notification channel side by side: one camera
\* session after another with responses that carry no detection, and the events
\* of the channel other than 'detection' messages, until the page is left
NextSession ==
  \/ ToggleCamera
  \/ GetUserMediaSettles(TRUE)
  \/ VideoCanPlay
  \/ CallStartPeriodicProcessing
  \/ Cleanup
  \/ CaptureTick
  \/ DelayedCapture
  \/ ProcessFrameWithBackend(TRUE)
  \/ FetchResolves(TRUE)
  \/ RequestFails("fetch")
  \/ ResponseHandled(Response(<<>>))
  \/ SocketOpens(TRUE)
  \/ \E from \in {"connecting", "open"} : SocketCloses(TRUE, from)
  \/ SocketError(TRUE)
  \/ ReconnectTimerFires(FALSE)
  \/ HeartbeatTick
  \/ \E type \in MessageTypes : OtherMessage(TRUE, type, <<>>, <<>>)

SpecSession == Init /\ [][NextSession]_vars

----------------------------------------------------------------------------
(* The WebSocket server of server.js *)

\* what the server is sent: the text parses to an object with a type, to a
\* number, to null, or does not parse
ClientMessage(parsesTo, type) == [parsesTo |-> parsesTo, type |-> type]

ClientMessages ==
  { ClientMessage("object", "ping"), ClientMessage("object", "frame"),
    ClientMessage("object", "other"), ClientMessage("number", "undefined"),
    ClientMessage("null", "undefined"), ClientMessage("invalid", "undefined") }

\* JSON.parse(message) throws, or reading data.type throws
HandlerThrew(message) == message.parsesTo \in {"invalid", "null"}

NoReply == <<>>

\* case 'ping': ws.send(JSON.stringify({ type: 'pong' }))
PongReply == <<"pong">>

\* what ws.on('message') sends for a message
ServerReply(message) ==
  IF HandlerThrew(message) THEN <<"error">>
  ELSE IF message.type = "frame" THEN <<"processing">>
  ELSE IF message.type = "ping" THEN PongReply
  ELSE <<>>

Received == LET RECURSIVE Sum(_)
                Sum(n) == IF n = 0 THEN 0 ELSE Sum(n - 1) + connections[n].received
            IN Sum(Len(connections))

\* wss.on('connection'): the handlers are set and 'connected' is sent
ServerConnection ==
  /\ Len(connections) < MaxConnections
  /\ connections' =
       Append(connections, [open |-> TRUE, received |-> 0, out |-> <<"connected">>])
  /\ lastOp' = Op("connection", <<>>)
  /\ UNCHANGED <<cacheVars, renderVars, captureVars, channelVars,
                 healthCheckInterval, connectivityTimer, cleanedUp, logVars, appVars>>

\* ws.on('message') of connection c
ServerMessage(c, message) ==
  /\ c \in 1..Len(connections)
  /\ connections[c].open
  /\ Received < MaxClientMessages
  /\ connections' = [connections EXCEPT ![c].received = @ + 1,
                                        ![c].out = @ \o ServerReply(message)]
  /\ lastOp' = Op("serverMessage", <<>>)
  /\ UNCHANGED <<cacheVars, renderVars, captureVars, channelVars,
                 healthCheckInterval, connectivityTimer, cleanedUp, logVars, appVars>>

\* ws.on('close') of connection c
ServerClose(c) ==
  /\ c \in 1..Len(connections)
  /\ connections[c].open
  /\ connections' = [connections EXCEPT ![c].open = FALSE]
  /\ lastOp' = Op("serverClose", <<>>)
  /\ UNCHANGED <<cacheVars, renderVars, captureVars, channelVars,
                 healthCheckInterval, connectivityTimer, cleanedUp, logVars, appVars>>

NextServer ==
  \/ ServerConnection
  \/ \E c \in 1..MaxConnections : \E message \in ClientMessages : ServerMessage(c, message)
  \/ \E c \in 1..MaxConnections : ServerClose(c)

SpecServer == Init /\ [][NextServer]_vars

SpecControls == Init /\ [][NextControls]_vars

NextLog == \E level \in {"info", "error"} : LogMessage(level)

SpecLog == Init /\ [][NextLog]_vars

----------------------------------------------------------------------------
(* Claims about the detection cache *)

EqualIgnoringCase(a, b) == ToLowerCase(a) = ToLowerCase(b)

Live(card) == now - card.timestamp <= CooldownMs

\* the last operation handled a detection of this name
Handled(name) ==
  /\ lastOp.op \in {"handleBackendResponse", "handleDetection"}
  /\ \E n \in 1..Len(lastOp.names) :
       lastOp.names[n] # Undefined /\ EqualIgnoringCase(lastOp.names[n], name)

\* C1: no two distinct stored cards have names that are equal ignoring case and
\* timestamps that are both within the cooldown window of the current time.
C1_NoLiveDuplicates ==
  \A a, b \in DOMAIN detectedCards :
    (/\ a # b
     /\ EqualIgnoringCase(detectedCards[a].name, detectedCards[b].name)
     /\ Live(detectedCards[a]))
    => ~Live(detectedCards[b])

\* a detection whose name differs only in case from a live stored card was handled,
\* and the store holds that card and another live one
C1_Witness ==
  /\ Cardinality(DOMAIN detectedCards) >= 2
  /\ \A id \in DOMAIN detectedCards : Live(detectedCards[id])
  /\ \E id \in DOMAIN detectedCards :
       /\ Handled(detectedCards[id].name)
       /\ detectedCards[id].name \notin { lastOp.names[n] : n \in 1..Len(lastOp.names) }
       /\ detectedCards[id].timestamp < now

\* C2: when a detection is handled more than the cooldown window after a stored
\* card of the same name was created, it is inserted as a second card of that name.
C2_ReinsertedAfterCooldown ==
  \A id \in DOMAIN detectedCards :
    (/\ Handled(detectedCards[id].name)
     /\ now - detectedCards[id].timestamp > CooldownMs)
    => \E other \in DOMAIN detectedCards :
         /\ other # id
         /\ EqualIgnoringCase(detectedCards[other].name, detectedCards[id].name)
         /\ detectedCards[other].timestamp = now

BlockedWithinCooldown(cards, cardName, t) ==
  \E id \in DOMAIN cards :
    /\ EqualIgnoringCase(cards[id].name, cardName)
    /\ t - cards[id].timestamp <= CooldownMs

\* C3: a detection whose name equals, ignoring case, that of a stored card created at
\* most the cooldown window earlier (the boundary included) is rejected, and the
\* store is left as it was: the same keys and the same cards.
C3_RejectedWithinCooldown ==
  [][ (/\ lastOp'.op \in {"handleBackendResponse", "handleDetection"}
       /\ Len(lastOp'.names) > 0
       /\ \A n \in 1..Len(lastOp'.names) :
            /\ lastOp'.names[n] # Undefined
            /\ BlockedWithinCooldown(detectedCards, lastOp'.names[n], now))
      => detectedCards' = detectedCards ]_vars

\* a detection was handled exactly at the boundary of the cooldown window of the
\* stored card of its name, and that card is the only one of the name
C3_Witness ==
  \E id \in DOMAIN detectedCards :
    /\ Handled(detectedCards[id].name)
    /\ now - detectedCards[id].timestamp = CooldownMs
    /\ \A other \in DOMAIN detectedCards :
         EqualIgnoringCase(detectedCards[other].name, detectedCards[id].name) => other = id

\* the match carries a name, with no white space around it
Named(match) == Truthy(match.name) /\ Trim(match.name) = match.name

\* C13: from an empty store, handling a response with one detection whose best
\* match is named N leaves exactly one card: its name is N, its confidence the
\* distance of the match, kept is false, its timestamp the time of the insertion,
\* and setId / cardId are 'Unknown Set' / 'Unknown ID' when the match carries none.
C13_OneCardFromEmpty ==
  [][ \A data \in Responses :
        (/\ detectedCards = EmptyMap
         /\ Len(data.detections) = 1
         /\ Len(data.detections[1].matches) > 0
         /\ Named(data.detections[1].matches[1])
         /\ HandleBackendResponse(data))
        => LET bestMatch == data.detections[1].matches[1]
           IN /\ Cardinality(DOMAIN detectedCards') = 1
              /\ \A id \in DOMAIN detectedCards' :
                   /\ detectedCards'[id].id = id
                   /\ detectedCards'[id].name = bestMatch.name
                   /\ detectedCards'[id].confidence = bestMatch.distance
                   /\ detectedCards'[id].kept = FALSE
                   /\ detectedCards'[id].timestamp = now
                   /\ bestMatch.set_id = Undefined => detectedCards'[id].setId = UnknownSet
                   /\ bestMatch.card_id = Undefined => detectedCards'[id].cardId = UnknownID
    ]_vars

\* a response with the one detection named "Pi" was handled, and the store holds
\* the one card it inserted
C13_Witness ==
  /\ lastOp.op = "handleBackendResponse"
  /\ lastOp.names = <<StrPi>>
  /\ now > 0
  /\ Cardinality(DOMAIN detectedCards) = 1
  /\ \A id \in DOMAIN detectedCards :
       /\ detectedCards[id].name = StrPi
       /\ detectedCards[id].timestamp = now
       /\ detectedCards[id].cardId = UnknownID

\* C14: toggleKeepCard(id) on a stored id flips the kept flag of that card and
\* leaves its other fields and every other card as they were, so that a second
\* call restores the store; on an id that is not stored the store is unchanged.
C14_ToggleKeepFrame ==
  [][ \A id \in DOMAIN detectedCards \cup {AbsentId} :
        ToggleKeepCard(id)
        => /\ DOMAIN detectedCards' = DOMAIN detectedCards
           /\ \A k \in DOMAIN detectedCards :
                IF k = id
                  THEN /\ detectedCards'[k].kept = ~detectedCards[k].kept
                       /\ [detectedCards'[k] EXCEPT !.kept = detectedCards[k].kept]
                            = detectedCards[k]
                       /\ [detectedCards'[k] EXCEPT !.kept = ~detectedCards'[k].kept]
                            = detectedCards[k]
                  ELSE detectedCards'[k] = detectedCards[k]
    ]_vars

\* a card was toggled: the store holds a kept card and one that is not kept
C14_Witness ==
  /\ lastOp.op = "toggleKeepCard"
  /\ \E a, b \in DOMAIN detectedCards : detectedCards[a].kept /\ ~detectedCards[b].kept

\* C15: removeCard(id) on a stored id deletes that card and leaves every other
\* card as it was; on an id that is not stored the store is unchanged.
C15_RemoveCardFrame ==
  [][ \A id \in DOMAIN detectedCards \cup {AbsentId} :
        RemoveCard(id)
        => /\ DOMAIN detectedCards' = DOMAIN detectedCards \ {id}
           /\ \A k \in DOMAIN detectedCards' : detectedCards'[k] = detectedCards[k]
    ]_vars

\* a stored card was removed and another card is still stored
C15_Witness ==
  /\ lastOp.op = "removeCard"
  /\ Len(lastOp.names) = 1
  /\ detectedCards # EmptyMap
  /\ \A id \in DOMAIN detectedCards : detectedCards[id].name # lastOp.names[1]

\* C16: removeAllCards empties the store, kept cards included, and reports the
\* number of cards that were stored before the call; on an empty store it
\* changes nothing.
C16_RemoveAllCount ==
  [][ RemoveAllCards
      => IF detectedCards = EmptyMap
           THEN /\ UNCHANGED <<cacheVars, renderVars, captureVars, channelVars, sessionVars>>
                /\ lastOp'.op = "noCardsToRemove"
           ELSE /\ detectedCards' = EmptyMap
                /\ lastOp'.op = "removeAllCards"
                /\ lastOp'.count = Cardinality(DOMAIN detectedCards)
    ]_vars

\* two cards were removed at once
C16_Witness ==
  /\ lastOp.op = "removeAllCards"
  /\ lastOp.count = 2
  /\ detectedCards = EmptyMap

\* C17: a stored card leaves the store, or is replaced by another, only in a
\* removeCard or removeAllCards step.
C17_LeavesOnlyByRemoval ==
  [][ (\E id \in DOMAIN detectedCards :
         \/ id \notin DOMAIN detectedCards'
         \/ /\ id \in DOMAIN detectedCards'
            /\ [detectedCards'[id] EXCEPT !.kept = detectedCards[id].kept]
                 # detectedCards[id])
      => lastOp'.op \in {"removeCard", "removeAllCards"} ]_vars

\* C18: every insertion uses an id that is not a key of the store: a step that
\* handles a response or a channel message writes no key the store holds.
C18_FreshIds ==
  [][ lastOp'.op \in {"handleBackendResponse", "handleDetection"}
      => \A id \in DOMAIN detectedCards :
           id \in DOMAIN detectedCards' /\ detectedCards'[id] = detectedCards[id] ]_vars

----------------------------------------------------------------------------
(* Claims about the capture scheduler *)

\* C4: the recognition requests that were issued and have not settled are never
\* more than one, whatever the interleaving of ticks, delayed captures and
\* toBlob callbacks.
C4_SingleInFlight == Outstanding(calls) <= 1

\* a frame callback was skipped because a request is in flight, while a further
\* delayed capture is pending
C4_Witness ==
  /\ lastOp.op = "processFrameSkipped"
  /\ calls.fetch = 1
  /\ delays >= 1

C19_StartWithoutStream ==
  [][ (lastOp'.op = "startPeriodicProcessing" /\ ~stream)
      => UNCHANGED <<captureVars>> ]_vars

\* startPeriodicProcessing was called with the camera stopped after a run
C19_Witness ==
  /\ lastOp.op = "startPeriodicProcessing"
  /\ ~stream
  /\ captureTimers = <<>>
  /\ isProcessing

StartOps == {"canplay", "startPeriodicProcessing", "updateProcessingSpeed"}

\* C20: at most one capture interval timer is active, and its period is 1000 / the
\* rate read by the start that created it; a start (a restart included) leaves
\* the in-flight flag and the outstanding request as they are; a rate change
\* while no capture timer runs starts none.
C20_OneTimerAtRate ==
  [][ /\ Len(captureTimers') <= 1
      /\ (/\ lastOp'.op \in StartOps
          /\ stream
          /\ lastOp'.op = "updateProcessingSpeed" => captureTimers # <<>>)
         => /\ Len(captureTimers') = 1
            /\ captureTimers'[1] * fps' = 1000
      /\ lastOp'.op \in StartOps => UNCHANGED <<isProcessing, calls, delays, blobs>>
      /\ (lastOp'.op = "updateProcessingSpeed" /\ captureTimers = <<>>)
         => captureTimers' = <<>>
      /\ lastOp'.op \notin StartOps \cup {"toggleCamera", "cleanup", "stopPeriodicProcessing"}
         => captureTimers' = captureTimers
    ]_vars

\* the rate was changed while a request was in flight: the timer runs at the
\* new rate and the request is still outstanding
C20_Witness ==
  /\ lastOp.op = "updateProcessingSpeed"
  /\ captureTimers = <<500>>
  /\ isProcessing
  /\ calls.body = 1

\* C21: stopPeriodicProcessing cancels the capture interval timer and touches
\* nothing else; a stop that follows a stop, and a stop with no timer running,
\* change nothing.
C21_StopIdempotent ==
  [][ lastOp'.op = "stopPeriodicProcessing"
      => /\ captureTimers' = <<>>
         /\ processingInterval' = FALSE
         /\ UNCHANGED <<stream, gumPending, isProcessing, fps, delays, blobs, calls,
                        cacheVars, renderVars, channelVars, sessionVars>>
         /\ (lastOp.op = "stopPeriodicProcessing" \/ captureTimers = <<>>)
            => UNCHANGED <<captureTimers, processingInterval>>
    ]_vars

\* the timer was stopped while the stream is held and a request is in flight
C21_Witness ==
  /\ lastOp.op = "stopPeriodicProcessing"
  /\ stream
  /\ isProcessing
  /\ captureTimers = <<>>
  /\ ~processingInterval

\* the entries have one of level 'error'
HasError(log) == \E n \in 1..Len(log) : log[n].level = "error"

\* C22, as stated: after a recognition request has failed, no request is issued
\* before a capture tick has fired; so the step that follows the failure issues none.
C22_NoRequestBeforeNextTick ==
  [][ lastOp.op = "requestFailed" => lastOp'.op # "processFrame" ]_vars

\* C22, amended: when a recognition request fails or returns a non-success status,
\* error entries are appended to the message log, the cache is unchanged, the
\* in-flight flag is cleared, and the failure handling issues no request and
\* schedules no capture; a request is issued only by the frame callback of a
\* capture that a tick started, which may have fired before the failure.
C22_FailureHandled ==
  [][ /\ lastOp'.op = "requestFailed"
         => /\ HasError(lastOp'.log)
            /\ detectedCards' = detectedCards
            /\ isProcessing' = FALSE
            /\ Outstanding(calls') = Outstanding(calls) - 1
            /\ UNCHANGED <<delays, blobs, captureTimers, processingInterval, stream>>
      /\ (Outstanding(calls') > Outstanding(calls))
         => (lastOp'.op = "processFrame" /\ blobs' = blobs - 1)
    ]_vars

\* a request has failed while the frame of an earlier tick is still to come
C22_Witness ==
  /\ lastOp.op = "requestFailed"
  /\ ~isProcessing
  /\ Outstanding(calls) = 0
  /\ blobs > 0
  /\ stream

FailedOps == {"requestFailed", "responseThrew", "processFrameFailed"}

\* C23: after a recognition cycle has failed (the request failed, the response
\* had a non-success status, or handling the frame or the response threw), the
\* in-flight flag is clear, and a new request is eventually issued unless the
\* stream or the capture timer goes away.
C23_ResumesAfterFailure ==
  /\ [](lastOp.op \in FailedOps => ~isProcessing)
  /\ (lastOp.op \in FailedOps)
       ~> (lastOp.op = "processFrame" \/ ~stream \/ captureTimers = <<>>)

\* a cycle has failed while the camera runs and the timer is set
C23_Witness ==
  /\ lastOp.op \in FailedOps
  /\ stream /\ captureTimers # <<>>
  /\ delays = 0 /\ blobs = 0

\* C24: a successful response that lacks the expected fields (no detections
\* array, a detection without matches, a best match with a field of the wrong
\* shape) is logged and handled as zero detections: the cache remains as it
\* was and the in-flight flag is cleared.
C24_MalformedAsZeroDetections ==
  [][ \A data \in MalformedResponses :
        (calls.body > 0 /\ ResponseHandled(data))
        => /\ lastOp'.log # <<>>
           /\ detectedCards' = detectedCards
           /\ isProcessing' = FALSE
    ]_vars

\* C25: when the camera request is rejected while no stream is held, no stream
\* is held afterwards, an error entry is appended to the message log, no capture
\* timer is created, and no recognition request is issued before a camera
\* request succeeds; so the step that follows the rejection issues none.
C25_RejectedNeverCaptures ==
  [][ /\ (lastOp'.op = "cameraDenied" /\ ~stream)
         => /\ ~stream'
            /\ HasError(lastOp'.log)
            /\ captureTimers' = <<>>
      /\ (lastOp.op = "cameraDenied" /\ ~stream)
         => Outstanding(calls') <= Outstanding(calls)
    ]_vars

\* C26: from stopCamera until the camera is started again no stream is held,
\* and no recognition request is issued, whatever capture was under way when
\* the camera was stopped.
C26_NoRequestAfterStop ==
  [][ ~stream => Outstanding(calls') <= Outstanding(calls) ]_vars

\* v holds a character that is no white space
NonBlank(v) == v # Undefined /\ \E i \in 1..Len(v) : ~IsSpace(v[i])

\* v from its first to its last character that is no white space
Stripped(v) ==
  LET at == {i \in 1..Len(v) : ~IsSpace(v[i])}
      lo == CHOOSE i \in at : \A j \in at : i <= j
      hi == CHOOSE i \in at : \A j \in at : j <= i
  IN SubSeq(v, lo, hi)

\* the first of name, card id and set id that is not blank, stripped
FirstNonBlank(match) ==
  IF NonBlank(match.name) THEN Stripped(match.name)
  ELSE IF NonBlank(match.card_id) THEN Stripped(match.card_id)
  ELSE IF NonBlank(match.set_id) THEN Stripped(match.set_id)
  ELSE UnknownCard

\* C29: the name stored for a detection is the first of the name, the card id
\* and the set id of its first match that is not blank, trimmed, and
\* 'Unknown Card' when all three are absent or blank; the matches after the
\* first make no difference.
C29_StoredNameIsFirstNonBlank ==
  [][ \A data \in NameResponses :
        (detectedCards = EmptyMap /\ HandleBackendResponse(data))
        => /\ Cardinality(DOMAIN detectedCards') = 1
           /\ \A id \in DOMAIN detectedCards' :
                detectedCards'[id].name = FirstNonBlank(data.detections[1].matches[1])
    ]_vars

\* the store holds the one card of a detection whose best match had a blank
\* name and a card id
C29_Witness ==
  /\ lastOp.op = "handleBackendResponse"
  /\ \E id \in DOMAIN detectedCards : detectedCards[id].name = StrE

\* C30: the label of a detection with a polygon in the render pass its handler
\* registers, which is the text the pass draws, equals the name the cache
\* resolves for the detection: on the HTTP path the first non-blank of name,
\* card id and set id or 'Unknown Card', on the WebSocket path the card's name.
C30_LabelIsDisplayName ==
  [][ /\ \A data \in NameResponses :
           (Len(rafQueue) < MaxPending /\ HandleBackendResponse(data))
           => rafQueue'[Len(rafQueue')][1].label
                = ResolveName(data.detections[1].matches[1])
      /\ \A cards \in NameChannelLists : \A randoms \in [1..Len(cards) -> RandomSuffixes] :
           (Len(rafQueue) < MaxPending /\ HandleDetection(cards, randoms))
           => rafQueue'[Len(rafQueue')][1].label = cards[1].name
    ]_vars

\* C35: stopCamera leaves a request in flight and its flag alone, and the
\* response of a request is handled the same with and without a stream: the
\* flag is cleared, and a detection named "Pi" that reaches an empty store is
\* stored as its one card and registered for drawing.
C35_ResponseAppliedAfterStop ==
  [][ /\ lastOp'.op = "toggleCamera" => UNCHANGED <<calls, isProcessing, detectedCards>>
      /\ \A data \in CaptureResponses :
           (calls.body > 0 /\ ResponseHandled(data))
           => /\ isProcessing' = FALSE
              /\ UNCHANGED <<stream, captureTimers, processingInterval>>
      /\ (calls.body > 0 /\ detectedCards = EmptyMap
            /\ ResponseHandled(Response(<<DetSquarePi>>)))
         => /\ Cardinality(DOMAIN detectedCards') = 1
            /\ \A id \in DOMAIN detectedCards' : detectedCards'[id].name = StrPi
            /\ Len(rafQueue') = Len(rafQueue) + 1
    ]_vars

\* the response of a request that was in flight when the camera was stopped
\* has put its card into the store
C35_Witness ==
  /\ lastOp.op = "responseHandled"
  /\ lastOp.names = <<StrPi>>
  /\ ~stream /\ captureTimers = <<>>
  /\ ~isProcessing
  /\ Cardinality(DOMAIN detectedCards) = 1

\* C36: the in-flight flag is set exactly when one recognition request is
\* outstanding, and a call that is skipped because a request is in flight
\* leaves the flag set and the request outstanding.
C36_FlagIffOutstanding ==
  /\ [](isProcessing <=> Outstanding(calls) = 1)
  /\ [](Outstanding(calls) <= 1)
  /\ [][ lastOp'.op = "processFrameSkipped"
         => (isProcessing /\ isProcessing' /\ calls' = calls) ]_vars

\* a call was skipped while the body of a response was being read
C36_Witness ==
  /\ lastOp.op = "processFrameSkipped"
  /\ isProcessing
  /\ calls.body = 1

----------------------------------------------------------------------------
(* Claims about the notification channel and the session's timers *)

\* C6: at most one reconnect timer is pending, whatever the close events.
C6_AtMostOneReconnectTimer == reconnectTimers <= 1

\* C7: one heartbeat timer is active when the channel is connected, and none
\* otherwise (stated of the session before cleanup).
C7_HeartbeatMatchesConnection ==
  ~cleanedUp => heartbeats = (IF isConnected THEN 1 ELSE 0)

\* C8: after cleanup() no capture, heartbeat, reconnect or health check timer
\* is pending, no connection is being attempted and no ping is sent.
C8_NoTimersAfterCleanup ==
  cleanedUp =>
    /\ captureTimers = <<>>
    /\ heartbeats = 0
    /\ reconnectTimers = 0
    /\ ~healthCheckInterval
    /\ ws # "connecting"
    /\ lastOp.op # "ping"

\* C9: before cleanup the channel is never left disconnected with no socket
\* connecting and no reconnect timer pending.
C9_ReconnectNeverGivesUp ==
  (~cleanedUp /\ ~isConnected)
    => (ws = "connecting" \/ orphans.connecting > 0 \/ reconnectTimers > 0)

----------------------------------------------------------------------------
(* Claims about the overlay renderer *)

\* C27: a channel message of a type handleMessage has no case for, or whose
\* payload is no JSON, whatever else it carries, leaves the cache, the overlay,
\* the connection state and every timer unchanged; the socket it came from is
\* still open, so that its later messages are received.
C27_UnknownMessageIgnored ==
  [][ \A current \in BOOLEAN : \A type \in {"unknown", "invalid"} :
        \A cards \in ChannelCardLists : \A randoms \in [1..Len(cards) -> RandomSuffixes] :
          (SocketIsOpen(current) /\ OtherMessage(current, type, cards, randoms))
          => /\ UNCHANGED <<cacheVars, renderVars, captureVars, channelVars, sessionVars>>
             /\ IF current THEN ws' = "open" ELSE orphans'.open > 0
    ]_vars

\* a message of an unknown type has arrived on the open connection while the
\* cache held a card and the heartbeat ran
C27_Witness ==
  /\ lastOp.op = "message"
  /\ lastOp.type = "unknown"
  /\ ws = "open" /\ isConnected /\ heartbeats = 1
  /\ detectedCards # EmptyMap

\* C28: the message log holds at most 50 entries, and they are the entries
\* that arrived last, unchanged and in their order of arrival.
C28_LogHoldsLastFifty ==
  LET n == Len(arrivals)
      kept == IF n > 50 THEN 50 ELSE n
  IN /\ Len(messageLog) <= 50
     /\ messageLog = SubSeq(arrivals, n - kept + 1, n)

\* more entries have arrived than the log holds, an error was evicted
C28_Witness ==
  /\ Len(arrivals) > 52
  /\ Len(messageLog) = 50
  /\ arrivals[1].color = ErrorColor

ChannelOps ==
  {"onopen", "onclose", "onerror", "connect", "connectFailed", "reconnectSkipped",
   "ping", "heartbeatIdle", "message"}

CaptureOps ==
  {"toggleCamera", "cameraGranted", "cameraDenied", "canplay", "tick", "delayedCapture",
   "processFrame", "processFrameSkipped", "processFrameFailed", "fetchResolved",
   "requestFailed", "responseHandled", "responseThrew"}

\* C31: the events of the notification channel (open, close, error, reconnect
\* timer, heartbeat, messages other than 'detection') leave the capture state
\* unchanged, and the capture path neither changes nor reads the connection
\* state: a tick schedules a capture exactly if a stream is held and no request
\* is in flight, and a frame is sent exactly if no request is in flight.
C31_ChannelAndCaptureIndependent ==
  [][ /\ lastOp'.op \in ChannelOps => UNCHANGED captureVars
      /\ lastOp'.op \in CaptureOps => UNCHANGED channelVars
      /\ lastOp'.op = "tick"
         => delays' = (IF stream /\ ~isProcessing THEN delays + 1 ELSE delays)
      /\ lastOp'.op \in {"processFrame", "processFrameSkipped"}
         => (lastOp'.op = "processFrame") = ~isProcessing
    ]_vars

\* the connection was closed while the camera ran and a request was in flight
C31_Witness ==
  /\ lastOp.op = "onclose"
  /\ ~isConnected
  /\ stream /\ captureTimers # <<>> /\ isProcessing /\ Outstanding(calls) = 1

\* C32, as stated: 'connected' is the first message of every connection, and
\* the reply to a message is one 'pong' for a ping, one 'processing' for a frame,
\* one 'error' for a text that does not parse and nothing for anything else; the
\* connection stays open.
C32_ReplyByMessage ==
  /\ [](\A c \in 1..Len(connections) : connections[c].out[1] = "connected")
  /\ [][ \A c \in 1..MaxConnections : \A message \in ClientMessages :
           (c <= Len(connections) /\ ServerMessage(c, message))
           => /\ connections'[c].open
              /\ connections'[c].out = connections[c].out \o
                   (IF message.parsesTo = "invalid" THEN <<"error">>
                    ELSE IF message.type = "ping" THEN <<"pong">>
                    ELSE IF message.type = "frame" THEN <<"processing">>
                    ELSE <<>>)
       ]_vars

\* C32, amended: as above, with one 'error' also for a text that parses to null.
C32_ReplyByMessageOrNull ==
  /\ [](\A c \in 1..Len(connections) : connections[c].out[1] = "connected")
  /\ [][ \A c \in 1..MaxConnections : \A message \in ClientMessages :
           (c <= Len(connections) /\ ServerMessage(c, message))
           => /\ connections'[c].open
              /\ connections'[c].out = connections[c].out \o
                   (IF message.parsesTo \in {"invalid", "null"} THEN <<"error">>
                    ELSE IF message.type = "ping" THEN <<"pong">>
                    ELSE IF message.type = "frame" THEN <<"processing">>
                    ELSE <<>>)
       ]_vars

\* a connection answered a ping after it had answered with an error, and after
\* a message it had no answer for
C32_Witness ==
  \E c \in 1..Len(connections) :
    /\ connections[c].open
    /\ connections[c].received = 3
    /\ connections[c].out = <<"connected", "error", "pong">>

\* C33: in the controller with Start, Stop and Capture buttons, between events,
\* Start is disabled and Stop and Capture are enabled exactly when a camera
\* stream is held.
C33_ButtonsFollowStream ==
  /\ controls.startDisabled = controls.stream
  /\ controls.stopDisabled = ~controls.stream
  /\ controls.captureDisabled = ~controls.stream

\* a camera request was granted after the camera had been stopped, a second
\* request still pending
C33_Witness ==
  /\ lastOp.op = "cameraStarted"
  /\ controls.stream /\ controls.startDisabled /\ ~controls.stopDisabled
  /\ controls.requests = 1

\* C34: after stopCamera no stream the controller has acquired is left with
\* running tracks.
C34_AllStreamsStopped ==
  (lastOp.op = "stopCamera") => (controls.running = 0)

\* C37: of the sockets the controller has created, the one this.ws holds and
\* those it has replaced, at most one is connecting or open.
C37_OneLiveSocket ==
  orphans.connecting + orphans.open + (IF ws \in {"connecting", "open"} THEN 1 ELSE 0) <= 1

\* C38: isConnected is true exactly when the socket this.ws holds is open, and
\* the close of a socket that was replaced neither clears isConnected nor
\* cancels the heartbeat while the current socket is open.
C38_ConnectedIffCurrentOpen ==
  /\ [](isConnected <=> ws = "open")
  /\ [][ (lastOp'.op = "onclose" /\ ws = "open" /\ ws' = "open")
         => (isConnected' = isConnected /\ heartbeats' = heartbeats) ]_vars

\* C39: whenever a capture interval timer is active a stream is held: a timer
\* is created only in a state with a stream, and the step that releases the
\* stream leaves no timer.
C39_TimerOnlyWithStream ==
  /\ [](captureTimers # <<>> => stream)
  /\ [][ /\ Len(captureTimers') > Len(captureTimers) => stream
         /\ (stream /\ ~stream') => captureTimers' = <<>>
         /\ lastOp'.op = "cleanup" => (captureTimers' = <<>> /\ ~stream')
       ]_vars

\* the page was left while the camera ran: cleanup has released the stream and
\* cancelled the timer
C39_Witness ==
  /\ lastOp.op = "cleanup"
  /\ ~stream /\ captureTimers = <<>> /\ ~processingInterval
  /\ isProcessing

\* C40: while no stream is held an overlay that is clear stays clear: no step
\* taken with the camera stopped draws a polygon on it.
C40_OverlayStaysClear ==
  [][ (~stream /\ ~stream' /\ overlay = <<>>) => overlay' = <<>> ]_vars

\* C10: at most one render pass is registered and not yet executed.
C10_AtMostOnePendingPass == Len(rafQueue) <= 1

\* the detections a surface shows: polygon, label and number of what is drawn
Shown(surface) ==
  [n \in 1..Len(surface) |->
     [polygon |-> surface[n].polygon, label |-> surface[n].label,
      number |-> surface[n].number]]

\* C11: when the render passes that were pending have all executed, the overlay
\* shows exactly the detections of the response handled last, and nothing when
\* that response carried no detections; a response without detections that finds
\* no pass pending leaves the overlay clear.
C11_LatestResponseShown ==
  [][ /\ lastOp'.op = "animationFrame" => Shown(overlay') = latest
      /\ (lastOp'.op = "responseHandled" /\ rafQueue' = <<>>) => Shown(overlay') = latest'
    ]_vars

\* C12: a render pass for the detection list that the pass before it drew leaves
\* the overlay as that pass left it: the same polygons, label texts, label
\* backgrounds and badges, with the font of the context carried over.
C12_RenderTwiceSame ==
  [][ (/\ lastOp'.op = "animationFrame"
       /\ rafQueue = <<Shown(overlay)>>)
      => overlay' = overlay ]_vars

====
